---- MODULE Spec2Model ----
(***************************************************************************)
(* Real-time chat layer of the Beachdo marketplace server                  *)
(* (src/server/routes.ts, wss.on('connection') and the storage and token   *)
(* helpers it calls).  One WebSocket per client, a process-wide            *)
(* Map<userId, ChatConnection> registry, and an async message handler per  *)
(* frame whose awaits (getChat, createMessage, updateChatLastMessage)      *)
(* interleave with every other handler of the process.                     *)
(***************************************************************************)
EXTENDS Integers, Sequences, FiniteSets, TLC

\* ------------------------------------------------------------------ bounds
\* Total number of client requests the server handles: auth frames,
\* chat_message frames of sockets with a user, malformed frames, frames of
\* other types, and logout requests.
MaxRequests == 2
\* Number of chat_message handlers started.
MaxChats == 2
\* Clock readings run from 0 to MaxClock.
MaxClock == 1
\* Number of apiRequest calls the browser makes.
MaxCalls == 2
\* Number of POST /api/chats requests.
MaxPosts == 2

\* ---------------------------------------------------------------- universe
Conns == {"c1", "c2", "c3"}
Users == {"u1", "u2", "u3"}
NULL == "null"
NoConn == "none"
NoTime == 0 - 1
Times == 0..MaxClock
\* chat-1 and chat-2 are rows of table chats; no row has id chat-9.
ChatIds == {"chat-1", "chat-2", "chat-9"}

\* JWT refresh tokens.  sig is "refresh" when signed with JWT_REFRESH_SECRET;
\* exp is the expiry instant of the token.
LongLived == MaxClock + 2
tokA == [jti |-> "tA", userId |-> "u1", exp |-> LongLived, sig |-> "refresh"]
tokB == [jti |-> "tB", userId |-> "u2", exp |-> LongLived, sig |-> "refresh"]
tokC == [jti |-> "tC", userId |-> "u3", exp |-> LongLived, sig |-> "refresh"]
tokOld == [jti |-> "tOld", userId |-> "u2", exp |-> 0, sig |-> "refresh"]
tokForged == [jti |-> "tX", userId |-> "u1", exp |-> LongLived, sig |-> "forged"]
IssuedTokens == {tokA, tokB, tokC, tokOld}
Tokens == IssuedTokens \cup {tokForged}
\* A request body without a refreshToken, an auth frame without a token.
NoToken == [jti |-> "none", userId |-> NULL, exp |-> 0, sig |-> "none"]

VARIABLES
    now,          \* the latest clock reading (new Date(), defaultNow())
    readyState,   \* ws.readyState of each server-side socket
    userId,       \* the closure variable userId of each connection
    connections,  \* the registry Map<string, ChatConnection>, as its entries
    chats,        \* rows of table chats
    messages,     \* rows of table messages, in insertion order
    authTokens,   \* rows of table auth_tokens (the refresh tokens stored)
    nreq,         \* client requests handled so far
    handlers,     \* chat_message handler invocations: id -> frame locals
    sent,         \* frames the server has written to each socket
    ignored,      \* history: sockets whose chat_message met userId = null
    accepted,     \* history: flaws of the tokens an auth frame was accepted with
    unknown,      \* history: sockets that got a frame of no handled type
    nauth,        \* history: auth frames handled per socket, by verdict
    lastAuth,     \* history: connection that last authenticated as a user
    closedSince,  \* history: a close handler ran since that authentication
    posts,        \* POST /api/chats requests: id -> handler locals
    calls,        \* apiRequest invocations of the browser: id -> locals
    localStorage  \* the browser's localStorage: accessToken, refreshToken

\* The state of the HTTP side: the requests in flight and the browser.
apiVars == <<posts, calls, localStorage>>

\* The state that only the WebSocket handlers write.
wsVars == <<readyState, userId, connections, messages, nreq, handlers, sent,
           ignored, accepted, unknown, nauth, lastAuth, closedSince>>

vars == <<now, readyState, userId, connections, chats, messages, authTokens,
          nreq, handlers, sent, ignored, accepted, unknown, nauth, lastAuth,
          closedSince, apiVars>>

\* ------------------------------------------------------------------ helpers
\* The sockets on which a token has verified.
authed == {c \in Conns : nauth[c].ok > 0}

\* The k-th chat_message handler started on socket c is <<c, k>>.
NextHandlerId(c) == <<c, Cardinality({id \in DOMAIN handlers : id[1] = c}) + 1>>

Range(s) == {s[i] : i \in 1..Len(s)}

NoMessage == [id |-> <<NoConn, 0>>, chatId |-> NULL, senderId |-> NULL,
              createdAt |-> NoTime]

Frame(type, status, message, chatId) ==
    [type |-> type, status |-> status, message |-> message, chatId |-> chatId]

\* jwt.verify(token, JWT_REFRESH_SECRET): signature and expiry, nothing else.
verifyRefreshToken(token) ==
    IF token.sig = "refresh" /\ now < token.exp
    THEN {[userId |-> token.userId]}
    ELSE {}

\* What makes a credential unacceptable: its refresh-token row is gone from
\* auth_tokens (logout, rotation), it is past its expiry, or it is not signed
\* with the refresh secret.
Flaws(token) ==
    {k \in {"revoked", "expired", "forged"} :
        \/ k = "revoked" /\ token \in IssuedTokens /\ token \notin authTokens
        \/ k = "expired" /\ now >= token.exp
        \/ k = "forged" /\ token.sig # "refresh"}

\* A registry that keeps the entry a key already has.
MapSet_KeepFirst(m, key, value) ==
    IF \E e \in m : e.userId = key THEN m ELSE m \cup {value}

\* A registry that adds the value without replacing the entry of its key.
MapSet_NoReplace(m, key, value) == m \cup {value}

\* Map.prototype.set / get / delete on the registry, keyed by userId.
MapSet(m, key, value) == {e \in m : e.userId # key} \cup {value}

MapGet(m, key) == {e \in m : e.userId = key}

\* A delete that removes nothing.
MapDelete_Noop(m, key) == m

MapDelete(m, key) == {e \in m : e.userId # key}

\* ws.send(frame): written to the socket when it is OPEN, dropped otherwise.
Send(s, ws, frame) ==
    IF readyState[ws] = "OPEN" THEN [s EXCEPT ![ws] = Append(@, frame)] ELSE s

\* storage.getChat(id): const [chat] = await db.select()...where(id)
getChat(id) == {r \in chats : r.id = id}

\* A participant check that only tests that the chat exists.
IsParticipant_ChatOnly(rows, uid) == rows # {}

\* chat && (chat.buyerId === userId || chat.sellerId === userId)
IsParticipant(rows, uid) ==
    \E chat \in rows : chat.buyerId = uid \/ chat.sellerId = uid

\* A closure that starts with an identity before any auth frame.
InitialUserId_Preset(c) == "u1"

\* let userId: string | null = null
InitialUserId(c) == NULL

\* Both parties of chat-1 are online: c1 has connected and authenticated as
\* the buyer u1 with tokA, c2 as the seller u2 with tokB.  A third socket, c3,
\* is yet to connect.  u1 has also opened chat-2 on its own listing l2, with
\* POST /api/chats and its own id as sellerId.  The browser of u1 holds the
\* token pair of its login, whose refresh token is tokA.
Init ==
    /\ now = 0
    /\ readyState = [c \in Conns |-> IF c = "c3" THEN "ABSENT" ELSE "OPEN"]
    /\ userId = [c \in Conns |->
                     IF c = "c1" THEN "u1" ELSE IF c = "c2" THEN "u2" ELSE NULL]
    /\ connections = {[userId |-> "u1", ws |-> "c1"],
                      [userId |-> "u2", ws |-> "c2"]}
    /\ chats = {[id |-> "chat-1", buyerId |-> "u1", sellerId |-> "u2",
                 listingId |-> "l1", lastMessageAt |-> NoTime],
                [id |-> "chat-2", buyerId |-> "u1", sellerId |-> "u1",
                 listingId |-> "l2", lastMessageAt |-> NoTime]}
    /\ messages = <<>>
    /\ authTokens = IssuedTokens
    /\ nreq = 0
    /\ handlers = <<>>
    /\ sent = [c \in Conns |->
                   IF c = "c3"
                   THEN <<>> ELSE <<Frame("auth", "success", NoMessage, NULL)>>]
    /\ ignored = {}
    /\ accepted = {}
    /\ unknown = {}
    /\ nauth = [c \in Conns |->
                    IF c = "c3" THEN [ok |-> 0, failed |-> 0]
                    ELSE [ok |-> 1, failed |-> 0]]
    /\ lastAuth = [u \in Users |->
                       IF u = "u1" THEN "c1" ELSE IF u = "u2" THEN "c2" ELSE NoConn]
    /\ closedSince = [u \in Users |-> FALSE]
    /\ posts = <<>>
    /\ calls = <<>>
    /\ localStorage = [accessToken |-> tokA.jti, refreshToken |-> tokA]

\* ------------------------------------------------------------------ actions
\* wss.on('connection'): a client connects; the closure gets userId = null.
Connect(c) ==
    /\ readyState[c] = "ABSENT"
    /\ readyState' = [readyState EXCEPT ![c] = "OPEN"]
    /\ userId' = [userId EXCEPT ![c] = InitialUserId(c)]
    /\ UNCHANGED <<now, connections, chats, messages, authTokens, nreq, handlers,
                   sent, ignored, accepted, unknown, nauth, lastAuth,
                   closedSince, apiVars>>

\* A listener that outlives the 'close' event.
Receivable_AfterClose(c) == readyState[c] # "ABSENT"

\* A 'message' event can be emitted on c: frames keep arriving after the
\* server's own ws.close(), until the 'close' event.
Receivable(c) == readyState[c] \in {"OPEN", "CLOSING"}

\* ws.on('message') with {type: 'auth', token}.
OnAuthFrame(c, token) ==
    LET payload == verifyRefreshToken(token) IN
    /\ Receivable(c)
    /\ nreq < MaxRequests
    /\ nreq' = nreq + 1
    /\ IF payload # {}
       THEN LET uid == (CHOOSE p \in payload : TRUE).userId IN
            /\ userId' = [userId EXCEPT ![c] = uid]
            /\ connections' = MapSet(connections, uid, [userId |-> uid, ws |-> c])
            /\ sent' = Send(sent, c, Frame("auth", "success", NoMessage, NULL))
            /\ nauth' = [nauth EXCEPT ![c].ok = @ + 1]
            /\ accepted' = accepted \cup Flaws(token)
            /\ lastAuth' = [lastAuth EXCEPT ![uid] = c]
            /\ closedSince' = [closedSince EXCEPT ![uid] = FALSE]
            /\ UNCHANGED readyState
       ELSE /\ sent' = Send(sent, c, Frame("auth", "failed", NoMessage, NULL))
            /\ readyState' = [readyState EXCEPT ![c] = "CLOSING"]
            /\ nauth' = [nauth EXCEPT ![c].failed = @ + 1]
            /\ UNCHANGED <<userId, connections, accepted, lastAuth, closedSince>>
    /\ UNCHANGED <<now, chats, messages, authTokens, handlers, ignored, unknown,
                   apiVars>>

\* The locals of a chat_message handler invocation, as it starts to await
\* storage.getChat(chatId).
NewHandler(c, chatId) ==
    [ws |-> c, chatId |-> chatId, pc |-> "getChat", chat |-> {},
     senderId |-> NULL, newMessage |-> NoMessage, ts |-> NoTime,
     outcome |-> "running", failedAt |-> NULL, lookup |-> NULL,
     pushed |-> FALSE, target |-> NoConn, otherUserId |-> NULL,
     lastAuthOther |-> NoConn, senderOpen |-> FALSE, lma |-> NoTime,
     targetUserId |-> NULL]

\* ws.on('message') with {type: 'chat_message', chatId, content}.
OnChatFrame(c, chatId) ==
    /\ Receivable(c)
    /\ IF userId[c] # NULL
       THEN /\ nreq < MaxRequests
            /\ Cardinality(DOMAIN handlers) < MaxChats
            /\ nreq' = nreq + 1
            /\ handlers' = handlers @@ (NextHandlerId(c) :> NewHandler(c, chatId))
            /\ UNCHANGED ignored
       ELSE /\ ignored' = ignored \cup {c}
            /\ UNCHANGED <<nreq, handlers>>
    /\ UNCHANGED <<now, readyState, userId, connections, chats, messages,
                   authTokens, sent, accepted, unknown, nauth, lastAuth,
                   closedSince, apiVars>>

\* A handler that closes the socket on a frame it cannot parse.
OnBadFrame_Close(c) ==
    /\ Receivable(c)
    /\ nreq < MaxRequests
    /\ nreq' = nreq + 1
    /\ sent' = Send(sent, c, Frame("error", NULL, NoMessage, NULL))
    /\ readyState' = [readyState EXCEPT ![c] = "CLOSING"]
    /\ UNCHANGED <<now, userId, connections, chats, messages, authTokens,
                   handlers, ignored, accepted, unknown, nauth, lastAuth,
                   closedSince, apiVars>>

\* ws.on('message') with a frame JSON.parse throws on: the catch block answers.
OnBadFrame(c) ==
    /\ Receivable(c)
    /\ nreq < MaxRequests
    /\ nreq' = nreq + 1
    /\ sent' = Send(sent, c, Frame("error", NULL, NoMessage, NULL))
    /\ UNCHANGED <<now, readyState, userId, connections, chats, messages,
                   authTokens, handlers, ignored, accepted, unknown, nauth, lastAuth,
                   closedSince, apiVars>>

\* ws.on('message') with valid JSON of any other type: neither branch runs.
OnOtherFrame(c) ==
    /\ Receivable(c)
    /\ nreq < MaxRequests
    /\ nreq' = nreq + 1
    /\ unknown' = unknown \cup {c}
    /\ UNCHANGED <<now, readyState, userId, connections, chats, messages,
                   authTokens, handlers, sent, ignored, accepted, nauth,
                   lastAuth, closedSince, apiVars>>

\* A catch block that only logs.
Catch_Silent(id, step) ==
    /\ sent' = sent
    /\ handlers' = [handlers EXCEPT
            ![id].pc = "done", ![id].outcome = "error", ![id].failedAt = step,
            ![id].senderOpen = (readyState[handlers[id].ws] = "OPEN")]

\* The catch block of the handler: ws.send({type: 'error'}) on its own socket.
Catch(id, step) ==
    /\ sent' = Send(sent, handlers[id].ws, Frame("error", NULL, NoMessage, NULL))
    /\ handlers' = [handlers EXCEPT
            ![id].pc = "done", ![id].outcome = "error", ![id].failedAt = step,
            ![id].senderOpen = (readyState[handlers[id].ws] = "OPEN")]

\* await storage.getChat(chatId) settles; the participant check runs and, when
\* it passes, storage.createMessage is called with senderId: userId.
GetChatReturn(id, ok) ==
    LET h == handlers[id]
        rows == getChat(h.chatId)
    IN
    /\ h.pc = "getChat"
    /\ IF ~ok
       THEN Catch(id, "getChat")
       ELSE /\ IF IsParticipant(rows, userId[h.ws])
               THEN handlers' = [handlers EXCEPT
                        ![id].pc = "createMessage", ![id].chat = rows,
                        ![id].senderId = userId[h.ws]]
               ELSE handlers' = [handlers EXCEPT
                        ![id].pc = "done", ![id].outcome = "rejected",
                        ![id].senderId = userId[h.ws]]
            /\ UNCHANGED sent
    /\ UNCHANGED <<now, readyState, userId, connections, chats, messages,
                   authTokens, nreq, ignored, accepted, unknown, nauth, lastAuth,
                   closedSince, apiVars>>

\* A handler that goes on after storage.createMessage rejected.
CreateMessageReturn_Swallow(id, ok, t1, t2) ==
    LET h == handlers[id]
        row == [id |-> id, chatId |-> h.chatId, senderId |-> h.senderId,
                createdAt |-> t1]
    IN
    /\ h.pc = "createMessage"
    /\ now <= t2
    /\ messages' = IF ok THEN Append(messages, row) ELSE messages
    /\ now' = t2
    /\ handlers' = [handlers EXCEPT ![id].pc = "updateChatLastMessage",
                                    ![id].newMessage = row,
                                    ![id].ts = t2]
    /\ UNCHANGED <<readyState, userId, connections, chats, authTokens, nreq,
                   sent, ignored, accepted, unknown, nauth, lastAuth,
                   closedSince, apiVars>>

\* await storage.createMessage(...) settles.  The insert gives the row
\* createdAt defaultNow(), the database's clock reading t1; the handler
\* resumes and calls storage.updateChatLastMessage(chatId), which evaluates
\* new Date(), the server's clock reading t2.  A rejected promise lands in the
\* catch block.
CreateMessageReturn(id, ok, t1, t2) ==
    LET h == handlers[id]
        row == [id |-> id, chatId |-> h.chatId, senderId |-> h.senderId,
                createdAt |-> t1]
    IN
    /\ h.pc = "createMessage"
    /\ now <= t2
    /\ IF ok
       THEN /\ messages' = Append(messages, row)
            /\ now' = t2
            /\ handlers' = [handlers EXCEPT ![id].pc = "updateChatLastMessage",
                                            ![id].newMessage = row,
                                            ![id].ts = t2]
            /\ UNCHANGED sent
       ELSE /\ Catch(id, "createMessage")
            /\ t1 = 0 /\ t2 = now
            /\ UNCHANGED <<now, messages>>
    /\ UNCHANGED <<readyState, userId, connections, chats, authTokens, nreq,
                   ignored, accepted, unknown, nauth, lastAuth,
                   closedSince, apiVars>>

\* A forward that does not look at the recipient's readyState.
RecipientOpen_Unchecked(e) == TRUE

\* otherConnection.ws.readyState === WebSocket.OPEN
RecipientOpen(e) == readyState[e.ws] = "OPEN"

\* chat.buyerId === userId ? chat.sellerId : chat.buyerId
OtherUserId(chat, uid) == IF chat.buyerId = uid THEN chat.sellerId ELSE chat.buyerId

\* An update whose where clause matches no row.
SetLastMessageAt_NoRow(rows, chatId, ts) == rows

\* DatabaseStorage.updateChatLastMessage: set lastMessageAt where id = chatId.
SetLastMessageAt(rows, chatId, ts) ==
    {IF r.id = chatId THEN [r EXCEPT !.lastMessageAt = ts] ELSE r : r \in rows}

\* A confirmation placed inside the branch that forwards.
ConfirmToSender_IfForwarded(s, h, forwarded) ==
    IF forwarded
    THEN Send(s, h.ws, Frame("message_sent", NULL, h.newMessage, NULL))
    ELSE s

\* Confirm to sender: ws.send({type: 'message_sent', message: newMessage}),
\* whether or not the message was forwarded.
ConfirmToSender(s, h, forwarded) ==
    Send(s, h.ws, Frame("message_sent", NULL, h.newMessage, NULL))

\* await storage.updateChatLastMessage(chatId) settles: the row is updated and
\* the handler forwards new_message to the other participant's registered
\* socket when it is open, then confirms message_sent to the sender.  A
\* rejected promise lands in the catch block.
UpdateChatLastMessageReturn(id, ok) ==
    LET h == handlers[id]
        chat == CHOOSE r \in h.chat : TRUE
        otherUserId == OtherUserId(chat, userId[h.ws])
        otherConnection == MapGet(connections, otherUserId)
        push == \E e \in otherConnection : RecipientOpen(e)
        dest == IF push
                THEN (CHOOSE e \in otherConnection : RecipientOpen(e)).ws
                ELSE NoConn
        s1 == IF push
              THEN Send(sent, dest,
                        Frame("new_message", NULL, h.newMessage, h.chatId))
              ELSE sent
    IN
    /\ h.pc = "updateChatLastMessage"
    /\ IF ok
       THEN /\ chats' = SetLastMessageAt(chats, h.chatId, h.ts)
            /\ sent' = ConfirmToSender(s1, h, push)
            /\ handlers' = [handlers EXCEPT
                    ![id].pc = "done", ![id].outcome = "sent",
                    ![id].otherUserId = otherUserId,
                    ![id].lookup =
                        IF otherConnection = {} THEN "absent"
                        ELSE IF \E e \in otherConnection : readyState[e.ws] = "OPEN"
                             THEN "open" ELSE "notopen",
                    ![id].pushed = push, ![id].target = dest,
                    ![id].lastAuthOther = lastAuth[otherUserId],
                    ![id].targetUserId = IF push THEN userId[dest] ELSE NULL,
                    ![id].senderOpen = (readyState[h.ws] = "OPEN"),
                    ![id].lma = (CHOOSE r \in chats' : r.id = h.chatId).lastMessageAt]
       ELSE /\ Catch(id, "updateChatLastMessage")
            /\ UNCHANGED chats
    /\ UNCHANGED <<now, readyState, userId, connections, messages, authTokens,
                   nreq, ignored, accepted, unknown, nauth, lastAuth,
                   closedSince, apiVars>>

\* A close handler that also abandons the relays of its socket.
OnClose_Abort(c) ==
    /\ readyState[c] \in {"OPEN", "CLOSING"}
    /\ readyState' = [readyState EXCEPT ![c] = "CLOSED"]
    /\ connections' = IF userId[c] # NULL
                      THEN MapDelete(connections, userId[c])
                      ELSE connections
    /\ closedSince' = [u \in Users |-> lastAuth[u] # NoConn]
    /\ handlers' = [id \in DOMAIN handlers |->
                       IF handlers[id].ws = c /\ handlers[id].pc # "done"
                       THEN [handlers[id] EXCEPT !.pc = "done",
                                                 !.outcome = "aborted"]
                       ELSE handlers[id]]
    /\ UNCHANGED <<now, userId, chats, messages, authTokens, nreq, sent,
                   ignored, accepted, unknown, nauth, lastAuth, apiVars>>

\* ws.on('close'): if (userId) connections.delete(userId).
OnClose(c) ==
    /\ readyState[c] \in {"OPEN", "CLOSING"}
    /\ readyState' = [readyState EXCEPT ![c] = "CLOSED"]
    /\ connections' = IF userId[c] # NULL
                      THEN MapDelete(connections, userId[c])
                      ELSE connections
    /\ closedSince' = [u \in Users |-> lastAuth[u] # NoConn]
    /\ UNCHANGED <<now, userId, chats, messages, authTokens, nreq, handlers,
                   sent, ignored, accepted, unknown, nauth, lastAuth, apiVars>>

\* POST /api/auth/logout by user uid: the refreshToken of the body is deleted,
\* or every token of the user when the body has none.
Logout(uid, refreshToken) ==
    /\ nreq < MaxRequests
    /\ nreq' = nreq + 1
    /\ authTokens' = IF refreshToken # NoToken
                     THEN authTokens \ {refreshToken}
                     ELSE {t \in authTokens : t.userId # uid}
    /\ UNCHANGED <<now, readyState, userId, connections, chats, messages,
                   handlers, sent, ignored, accepted, unknown, nauth, lastAuth,
                   closedSince, apiVars>>

Next ==
    \/ \E c \in Conns : Connect(c)
    \/ \E c \in Conns, t \in Tokens \cup {NoToken} : OnAuthFrame(c, t)
    \/ \E c \in Conns, ch \in ChatIds : OnChatFrame(c, ch)
    \/ \E c \in Conns : OnBadFrame(c)
    \/ \E c \in Conns : OnOtherFrame(c)
    \/ \E id \in DOMAIN handlers, ok \in BOOLEAN : GetChatReturn(id, ok)
    \/ \E id \in DOMAIN handlers, ok \in BOOLEAN, t1 \in Times, t2 \in Times :
           CreateMessageReturn(id, ok, t1, t2)
    \/ \E id \in DOMAIN handlers, ok \in BOOLEAN :
           UpdateChatLastMessageReturn(id, ok)
    \/ \E c \in Conns : OnClose(c)
    \/ \E u \in Users, t \in IssuedTokens \cup {NoToken} : Logout(u, t)

Spec == Init /\ [][Next]_vars

\* ------------------------------------------------------------- HTTP side
\* Listings a chat can be opened on.
Listings == {"l1", "l3"}

\* The id the database gives the row of the k-th POST /api/chats request.
NewChatId(k) == <<"chat-n1", "chat-n2", "chat-n3">>[k]

\* HTTP status codes of the responses the browser sees.
Statuses == {200, 401, 500}

\* Response.ok
Ok(status) == status \in 200..299

\* jwt.sign(payload, JWT_REFRESH_SECRET, {expiresIn}) at second t: the same
\* user and the same second give the same token string.
SignRefreshToken(uid, t) ==
    [jti |-> <<"n0", "n1", "n2", "n3">>[t + 1], userId |-> uid,
     exp |-> LongLived, sig |-> "refresh"]

\* storage.getChatByParticipants(buyerId, sellerId, listingId)
getChatByParticipants(buyerId, sellerId, listingId) ==
    {r \in chats : /\ r.buyerId = buyerId
                   /\ r.sellerId = sellerId
                   /\ r.listingId = listingId}

\* storage.createChat: insert into chats; the table has no unique constraint
\* on (buyerId, sellerId, listingId).
createChat(rows, id, buyerId, sellerId, listingId) ==
    rows \cup {[id |-> id, buyerId |-> buyerId, sellerId |-> sellerId,
                listingId |-> listingId, lastMessageAt |-> NoTime]}

\* POST /api/chats arrives from user u: the handler calls
\* storage.getChatByParticipants(req.user.id, sellerId, listingId).
PostChats(u, sellerId, listingId) ==
    /\ Len(posts) < MaxPosts
    /\ posts' = Append(posts, [buyerId |-> u, sellerId |-> sellerId,
                               listingId |-> listingId,
                               pc |-> "getChatByParticipants",
                               status |-> 0, chat |-> NULL])
    /\ UNCHANGED <<now, chats, authTokens, calls, localStorage, wsVars>>

\* await storage.getChatByParticipants settles: an existing chat is returned,
\* otherwise storage.createChat is called.
PostChatsLookup(k) ==
    LET p == posts[k]
        existingChat == getChatByParticipants(p.buyerId, p.sellerId, p.listingId)
    IN
    /\ p.pc = "getChatByParticipants"
    /\ posts' = IF existingChat # {}
                THEN [posts EXCEPT ![k].pc = "done", ![k].status = 200,
                         ![k].chat = (CHOOSE r \in existingChat : TRUE).id]
                ELSE [posts EXCEPT ![k].pc = "createChat"]
    /\ UNCHANGED <<now, chats, authTokens, calls, localStorage, wsVars>>

\* await storage.createChat settles: res.status(201).json(chat).
PostChatsCreate(k) ==
    LET p == posts[k] IN
    /\ p.pc = "createChat"
    /\ chats' = createChat(chats, NewChatId(k), p.buyerId, p.sellerId, p.listingId)
    /\ posts' = [posts EXCEPT ![k].pc = "done", ![k].status = 201,
                              ![k].chat = NewChatId(k)]
    /\ UNCHANGED <<now, authTokens, calls, localStorage, wsVars>>

\* localStorage.removeItem('accessToken'); removeItem('refreshToken')
ClearTokens == [accessToken |-> NULL, refreshToken |-> NoToken]

\* localStorage.setItem('accessToken', ...); setItem('refreshToken', ...)
StoreTokens(tokens) == [accessToken |-> tokens.jti, refreshToken |-> tokens]

\* apiRequest(method, url, data) is called: it reads the access token and
\* sends the request.
ApiRequest ==
    /\ Len(calls) < MaxCalls
    /\ calls' = Append(calls, [pc |-> "fetch", token |-> localStorage.accessToken,
                               refreshToken |-> NoToken, refreshStatus |-> 0,
                               issued |-> NoToken, returned |-> 0,
                               threw |-> FALSE])
    /\ UNCHANGED <<now, chats, authTokens, posts, localStorage, wsVars>>

\* await fetch(url) settles with a status.  On 401 with a token the call
\* reads the refresh token and posts it to /api/auth/refresh, or clears the
\* tokens when there is none; otherwise throwIfResNotOk decides.
FetchReturn(k, status) ==
    LET c == calls[k] IN
    /\ c.pc = "fetch"
    /\ IF status = 401 /\ c.token # NULL
       THEN IF localStorage.refreshToken # NoToken
            THEN /\ calls' = [calls EXCEPT
                        ![k].pc = "refresh.getAuthToken",
                        ![k].refreshToken = localStorage.refreshToken]
                 /\ UNCHANGED localStorage
            ELSE /\ localStorage' = ClearTokens
                 /\ calls' = [calls EXCEPT ![k].pc = "done", ![k].threw = TRUE]
       ELSE /\ calls' = IF Ok(status)
                        THEN [calls EXCEPT ![k].pc = "done",
                                           ![k].returned = status]
                        ELSE [calls EXCEPT ![k].pc = "done", ![k].threw = TRUE]
            /\ UNCHANGED localStorage
    /\ UNCHANGED <<now, chats, authTokens, posts, wsVars>>

\* POST /api/auth/refresh up to the end of await storage.getAuthToken: a token
\* that does not verify, or has no row in auth_tokens, is answered 401.
RefreshGetAuthToken(k) ==
    LET c == calls[k] IN
    /\ c.pc = "refresh.getAuthToken"
    /\ IF verifyRefreshToken(c.refreshToken) # {} /\ c.refreshToken \in authTokens
       THEN calls' = [calls EXCEPT ![k].pc = "refresh.rotate"]
       ELSE calls' = [calls EXCEPT ![k].pc = "refresh.response",
                                   ![k].refreshStatus = 401]
    /\ UNCHANGED <<now, chats, authTokens, posts, localStorage, wsVars>>

\* POST /api/auth/refresh from storage.deleteAuthToken on: the old row is
\* deleted and generateTokens signs a pair at second t and inserts its refresh
\* token; refresh_token is unique, so a token string already in the table
\* makes the insert throw and the request is answered 400.
RefreshRotate(k, t) ==
    LET c == calls[k]
        remaining == authTokens \ {c.refreshToken}
        tokens == SignRefreshToken(c.refreshToken.userId, t)
    IN
    /\ c.pc = "refresh.rotate"
    /\ now <= t
    /\ now' = t
    /\ IF tokens \in remaining
       THEN /\ authTokens' = remaining
            /\ calls' = [calls EXCEPT ![k].pc = "refresh.response",
                                      ![k].refreshStatus = 400]
       ELSE /\ authTokens' = remaining \cup {tokens}
            /\ calls' = [calls EXCEPT ![k].pc = "refresh.response",
                                      ![k].refreshStatus = 200,
                                      ![k].issued = tokens]
    /\ UNCHANGED <<chats, posts, localStorage, wsVars>>

\* await fetch('/api/auth/refresh') settles in apiRequest: an ok response
\* stores the new pair and retries the request; any other clears the tokens
\* and throwIfResNotOk throws on the 401 of the first response.
RefreshResponse(k) ==
    LET c == calls[k] IN
    /\ c.pc = "refresh.response"
    /\ IF Ok(c.refreshStatus)
       THEN /\ localStorage' = StoreTokens(c.issued)
            /\ calls' = [calls EXCEPT ![k].pc = "retry"]
       ELSE /\ localStorage' = ClearTokens
            /\ calls' = [calls EXCEPT ![k].pc = "done", ![k].threw = TRUE]
    /\ UNCHANGED <<now, chats, authTokens, posts, wsVars>>

\* The retried fetch settles: return fetch(url, ...) hands its response to
\* the caller as it is.
RetryReturn(k, status) ==
    LET c == calls[k] IN
    /\ c.pc = "retry"
    /\ calls' = [calls EXCEPT ![k].pc = "done", ![k].returned = status]
    /\ UNCHANGED <<now, chats, authTokens, posts, localStorage, wsVars>>

ApiNext ==
    \/ \E u \in {"u1", "u2"}, s \in {"u1", "u2"}, l \in Listings : PostChats(u, s, l)
    \/ \E k \in DOMAIN posts : PostChatsLookup(k)
    \/ \E k \in DOMAIN posts : PostChatsCreate(k)
    \/ ApiRequest
    \/ \E k \in DOMAIN calls, status \in Statuses : FetchReturn(k, status)
    \/ \E k \in DOMAIN calls : RefreshGetAuthToken(k)
    \/ \E k \in DOMAIN calls, t \in Times : RefreshRotate(k, t)
    \/ \E k \in DOMAIN calls : RefreshResponse(k)
    \/ \E k \in DOMAIN calls, status \in Statuses : RetryReturn(k, status)

ApiSpec == Init /\ [][ApiNext]_vars

\* ------------------------------------------------------------ properties
\* The frames written so far, over all sockets.
FramesOn(c) == Range(sent[c])

AllFrames == UNION {FramesOn(c) : c \in Conns}

\* The new_message and message_sent frames that carry the message of handler id.
MessageFrames(id) ==
    {f \in AllFrames : f.type \in {"new_message", "message_sent"} /\ f.message.id = id}

\* The rows of table messages written by handler id.
RowsOf(id) == {i \in 1..Len(messages) : messages[i].id = id}

\* C1: durability before visibility.  Every new_message or message_sent frame
\* on any socket carries a message that is a row of table messages, written by
\* a handler whose storage.createMessage resolved; a handler whose
\* createMessage rejected has no row and no new_message or message_sent frame.
C1_DurabilityBeforeVisibility ==
    /\ \A f \in AllFrames :
           f.type \in {"new_message", "message_sent"} =>
               /\ f.message \in Range(messages)
               /\ f.message.id \in DOMAIN handlers
               /\ handlers[f.message.id].newMessage = f.message
    /\ \A id \in DOMAIN handlers :
           handlers[id].failedAt = "createMessage" =>
               MessageFrames(id) = {} /\ RowsOf(id) = {}

\* A relay has forwarded new_message to the recipient and message_sent to the
\* sender, both carrying the stored row.
C1_Witness ==
    \E id \in DOMAIN handlers :
        /\ handlers[id].outcome = "sent"
        /\ \E f \in MessageFrames(id) : f.type = "new_message"
        /\ \E f \in MessageFrames(id) : f.type = "message_sent"

\* The buyer and the seller of the chat with the given id.
Participants(chatId) ==
    UNION {{r.buyerId, r.sellerId} : r \in getChat(chatId)}

\* The handlers that have written lastMessageAt of chat chatId.
Updaters(chatId) ==
    {id \in DOMAIN handlers :
        handlers[id].chatId = chatId /\ handlers[id].outcome = "sent"}

\* C2: every row of table messages has the buyer or the seller of its chat as
\* senderId; a chat_message handler that finds the connection's user not to be
\* a participant of the chat writes no row, sends no new_message and no
\* message_sent frame, and leaves lastMessageAt as it was (lastMessageAt of a
\* chat is only ever the value a relay of a participant wrote).
C2_OnlyParticipantsPersist ==
    /\ \A i \in 1..Len(messages) :
           messages[i].senderId \in Participants(messages[i].chatId)
    /\ \A id \in DOMAIN handlers :
           handlers[id].outcome = "rejected" =>
               /\ RowsOf(id) = {}
               /\ MessageFrames(id) = {}
               /\ handlers[id].lma = NoTime
    /\ \A r \in chats :
           r.lastMessageAt # NoTime =>
               \E id \in Updaters(r.id) :
                   /\ handlers[id].ts = r.lastMessageAt
                   /\ handlers[id].senderId \in Participants(r.id)

\* User u3, authenticated, has sent a chat_message for chat-1, of which it is
\* neither buyer nor seller, and the handler has finished.
C2_Witness ==
    \E id \in DOMAIN handlers :
        /\ handlers[id].outcome = "rejected"
        /\ handlers[id].chatId = "chat-1"
        /\ handlers[id].senderId = "u3"

C4_UnauthenticatedHasNoEffect ==
    \A c \in Conns \ authed :
        /\ userId[c] = NULL
        /\ \A id \in DOMAIN handlers : handlers[id].ws # c
        /\ \A i \in 1..Len(messages) : messages[i].id[1] # c
        /\ \A f \in AllFrames : f.message.id[1] # c
        /\ \A f \in FramesOn(c) :
               f.type \in {"error"} \/ (f.type = "auth" /\ f.status = "failed")

\* Socket c3 has connected, has sent a chat_message without authenticating,
\* and the frame has been handled.
C4_Witness ==
    /\ "c3" \in ignored
    /\ "c3" \notin authed
    /\ readyState["c3"] \in {"OPEN", "CLOSING"}

\* C5: no auth frame is accepted with a token that is revoked, expired or not
\* signed with the refresh secret.
C5_RejectsBadCredentials == accepted = {}

\* C6: while no close handler has run since user u last authenticated, the
\* registry holds exactly one entry for u, the socket that authenticated as u
\* most recently.
C6_BindOverwrites ==
    \A u \in Users :
        (lastAuth[u] # NoConn /\ ~closedSince[u]) =>
            MapGet(connections, u) = {[userId |-> u, ws |-> lastAuth[u]]}

\* User u2 has authenticated on c2 and then on c3, and no socket has closed.
C6_Witness ==
    /\ lastAuth["u2"] = "c3"
    /\ ~closedSince["u2"]
    /\ readyState["c2"] = "OPEN"
    /\ "c2" \in authed

\* C7: no registry entry refers to a socket whose close handler has run.
C7_NoStaleEntry ==
    \A e \in connections : readyState[e.ws] # "CLOSED"

\* C8: the registry does not map two different users to one socket.
C8_OneUserPerConnection ==
    \A e1 \in connections : \A e2 \in connections :
        e1.ws = e2.ws => e1.userId = e2.userId

\* The step appends an auth-success frame to socket c.
AuthSucceedsOn(c) ==
    /\ Len(sent'[c]) = Len(sent[c]) + 1
    /\ sent'[c][Len(sent'[c])] = Frame("auth", "success", NoMessage, NULL)

\* C9: a successful auth frame changes no socket's readyState (the sockets the
\* user already had stay open), and every new_message frame forwarded for a
\* user goes to the socket that authenticated as that user most recently.
C9_SecondDevice ==
    /\ [](\A id \in DOMAIN handlers :
              handlers[id].pushed =>
                  handlers[id].target = handlers[id].lastAuthOther)
    /\ [][(\E c \in Conns : AuthSucceedsOn(c)) => readyState' = readyState]_vars

\* u2 has authenticated on c3 while c2 was open; c2 is still open, and a
\* message of u1 for u2 has been forwarded to c3 and not to c2.
C9_Witness ==
    \E id \in DOMAIN handlers :
        /\ handlers[id].pushed
        /\ handlers[id].otherUserId = "u2"
        /\ handlers[id].target = "c3"
        /\ readyState["c2"] = "OPEN"
        /\ \E f \in FramesOn("c3") : f.type = "new_message" /\ f.message.id = id
        /\ \A f \in FramesOn("c2") : f.type # "new_message"

\* C10: a relay forwards new_message only when the registry entry of the
\* recipient has an OPEN socket at the lookup; when the recipient has no entry
\* or its socket is not OPEN, nothing is forwarded, the row is in table
\* messages, the relay ends without reaching the catch block, and the sender,
\* if its socket is open, has the message_sent frame.
C10_PushOnlyToOpen ==
    \A id \in DOMAIN handlers :
        LET h == handlers[id] IN
        /\ h.pushed => h.lookup = "open"
        /\ h.lookup \in {"absent", "notopen"} =>
               /\ ~h.pushed
               /\ \A f \in AllFrames : ~(f.type = "new_message" /\ f.message.id = id)
               /\ h.newMessage \in Range(messages)
               /\ h.outcome = "sent" /\ h.failedAt = NULL
               /\ h.senderOpen =>
                      \E f \in FramesOn(h.ws) :
                          f.type = "message_sent" /\ f.message = h.newMessage

\* A relay has found the recipient's registry entry with a socket that is not
\* OPEN, and the sender has its message_sent.
C10_Witness ==
    \E id \in DOMAIN handlers :
        /\ handlers[id].lookup = "notopen"
        /\ handlers[id].senderOpen
        /\ \E f \in FramesOn(handlers[id].ws) :
               f.type = "message_sent" /\ f.message.id = id

\* The frame the catch block sends.
ErrorFrame == Frame("error", NULL, NoMessage, NULL)

\* The number of frames equal to f written to socket c.
Count(c, f) == Cardinality({i \in 1..Len(sent[c]) : sent[c][i] = f})

\* The step ends the relay of handler id with both storage calls resolved.
RelayCompletes(id) ==
    /\ id \in DOMAIN handlers
    /\ handlers[id].pc = "updateChatLastMessage"
    /\ handlers'[id].outcome = "sent"

\* C11: once the row is written and lastMessageAt updated, the relay ends by
\* sending message_sent to the sender (written when the sender's socket is
\* open) whether the recipient had no entry, an entry with a socket that is
\* not open, or got the new_message; the step writes no error frame to any
\* socket and the relay never reaches the catch block.
C11_ConfirmRegardlessOfPush ==
    /\ [](\A id \in DOMAIN handlers :
              handlers[id].outcome = "sent" =>
                  /\ handlers[id].failedAt = NULL
                  /\ handlers[id].senderOpen =>
                         \E f \in FramesOn(handlers[id].ws) :
                             /\ f.type = "message_sent"
                             /\ f.message = handlers[id].newMessage)
    /\ [][\A id \in DOMAIN handlers :
              RelayCompletes(id) =>
                  /\ \A c \in Conns :
                         Len(sent'[c]) > Len(sent[c]) =>
                             sent'[c][Len(sent'[c])].type # "error"
                  /\ readyState[handlers[id].ws] = "OPEN" =>
                         sent'[handlers[id].ws][Len(sent'[handlers[id].ws])].type
                             = "message_sent"]_vars

\* A relay found no registry entry for the recipient; the sender has its
\* message_sent and has never been sent an error frame.
C11_Witness ==
    \E id \in DOMAIN handlers :
        /\ handlers[id].outcome = "sent"
        /\ handlers[id].lookup = "absent"
        /\ \E f \in FramesOn(handlers[id].ws) :
               f.type = "message_sent" /\ f.message.id = id
        /\ ErrorFrame \notin FramesOn(handlers[id].ws)

\* C12: every auth frame handled on a socket has put exactly one auth frame
\* on that socket, 'success' for a token that verified and 'failed'
\* otherwise, and a socket whose token verified is in the registry under the
\* token's user at once.
C12_OneAuthResponse ==
    /\ \A c \in Conns :
           /\ Count(c, Frame("auth", "success", NoMessage, NULL)) = nauth[c].ok
           /\ Count(c, Frame("auth", "failed", NoMessage, NULL)) = nauth[c].failed
    /\ \A u \in Users :
           (lastAuth[u] # NoConn /\ ~closedSince[u]) =>
               [userId |-> u, ws |-> lastAuth[u]] \in connections

\* An auth frame on socket c has failed verification.
AuthFailedOn(c) == nauth[c].failed > 0

\* C13: a socket whose auth frame failed verification has been sent auth
\* 'failed' and is closing or closed, and from then on no frame of that socket
\* is processed: its userId does not change, no registry entry for it
\* appears, and no chat_message handler starts on it.
C13_NothingAfterFailedAuth ==
    /\ [](\A c \in Conns :
              AuthFailedOn(c) =>
                  /\ Frame("auth", "failed", NoMessage, NULL) \in FramesOn(c)
                  /\ readyState[c] \in {"CLOSING", "CLOSED"})
    /\ [][\A c \in Conns :
              AuthFailedOn(c) =>
                  /\ userId'[c] = userId[c]
                  /\ {e \in connections' : e.ws = c} \subseteq connections
                  /\ {id \in DOMAIN handlers' : id[1] = c} \subseteq DOMAIN handlers
                  /\ nauth'[c].ok = nauth[c].ok]_vars

\* C14: a socket whose chat_message arrived while it had no user has been
\* sent an error frame.
C14_ErrorBeforeAuth ==
    \A c \in ignored : ErrorFrame \in FramesOn(c)

\* C15: a chat_message handler that found no chat of that id, or found the
\* socket's user not to be a participant, has sent an error frame to its open
\* socket, and the socket is not closed by the server.
C15_ErrorOnRejectedRelay ==
    \A id \in DOMAIN handlers :
        (handlers[id].outcome = "rejected" /\ readyState[handlers[id].ws] = "OPEN")
            => ErrorFrame \in FramesOn(handlers[id].ws)

\* The step takes handler id into the catch block.
RelayFails(id) ==
    /\ id \in DOMAIN handlers
    /\ handlers[id].pc \in {"createMessage", "updateChatLastMessage"}
    /\ handlers'[id].outcome = "error"

BadFrameAnswered(c) ==
    /\ handlers' = handlers
    /\ sent'[c] = Append(sent[c], ErrorFrame)

C18_ErrorOnUnknownType ==
    \A c \in unknown : ErrorFrame \in FramesOn(c)

\* The step is an error on socket c: an error frame or auth 'failed' is
\* written to it, or it is closed after its auth frame failed.
ErrorStepOn(c) ==
    \/ /\ Len(sent'[c]) = Len(sent[c]) + 1
       /\ sent'[c][Len(sent'[c])] \in
              {ErrorFrame, Frame("auth", "failed", NoMessage, NULL)}
    \/ /\ readyState[c] = "CLOSING"
       /\ readyState'[c] = "CLOSED"

\* C19: a step that is an error on socket c writes no frame to another
\* socket, changes no other socket's readyState, and removes no registry
\* entry of another socket.
C19_ErrorsAreIsolated ==
    [][\A c \in Conns :
           ErrorStepOn(c) =>
               \A d \in Conns \ {c} :
                   /\ sent'[d] = sent[d]
                   /\ readyState'[d] = readyState[d]
                   /\ {e \in connections : e.ws = d} \subseteq connections']_vars

\* The position of the row of handler id in table messages.
RowIndex(id) == CHOOSE i \in 1..Len(messages) : messages[i].id = id

\* The position on socket c of the new_message frame of handler id.
PushIndex(c, id) ==
    CHOOSE i \in 1..Len(sent[c]) :
        sent[c][i].type = "new_message" /\ sent[c][i].message.id = id

\* C20: of two chat_message frames received on one socket for one chat from
\* one sender, the earlier is stored before the later, and is forwarded before
\* the later on every socket that got both.
C20_PerSenderOrder ==
    \A id1 \in DOMAIN handlers : \A id2 \in DOMAIN handlers :
        (/\ id1[1] = id2[1]
         /\ id1[2] < id2[2]
         /\ handlers[id1].chatId = handlers[id2].chatId
         /\ handlers[id1].senderId = handlers[id2].senderId) =>
            /\ (RowsOf(id1) # {} /\ RowsOf(id2) # {}) =>
                   RowIndex(id1) < RowIndex(id2)
            /\ \A c \in Conns :
                   (/\ \E f \in FramesOn(c) :
                           f.type = "new_message" /\ f.message.id = id1
                    /\ \E f \in FramesOn(c) :
                           f.type = "new_message" /\ f.message.id = id2) =>
                       PushIndex(c, id1) < PushIndex(c, id2)

\* The step runs the close handler of socket c.
ClosesNow(c) == readyState[c] # "CLOSED" /\ readyState'[c] = "CLOSED"

\* C22: the close of a socket removes from the registry the entry of the
\* user the socket was last bound to, when there is one, and nothing else; the
\* close of a socket that never had a user leaves the registry as it was; a
\* socket closes once; and no other step removes a user from the registry.
C22_CloseUnbindsLastUser ==
    [][\A c \in Conns :
           /\ ClosesNow(c) =>
                  connections' =
                      IF userId[c] = NULL
                      THEN connections
                      ELSE connections \ MapGet(connections, userId[c])
           /\ readyState[c] = "CLOSED" => readyState'[c] = "CLOSED"
           /\ (\A d \in Conns : ~ClosesNow(d)) =>
                  \A e \in connections : MapGet(connections', e.userId) # {}
      ]_vars

\* c2 closed and the entry of its user u2 is gone; c3 closed without ever
\* authenticating; the entry of u1 is as it was.
C22_Witness ==
    /\ readyState["c2"] = "CLOSED" /\ userId["c2"] = "u2"
    /\ MapGet(connections, "u2") = {}
    /\ readyState["c3"] = "CLOSED" /\ userId["c3"] = NULL
    /\ [userId |-> "u1", ws |-> "c1"] \in connections

\* C23: a socket that has a user keeps having one; a connected socket does
\* not go back to before its connection; a closed socket stays closed, and
\* from then on no auth frame is handled on it, its userId does not change
\* and no registry entry for it appears.
C23_ConnectionStateMachine ==
    [][\A c \in Conns :
           /\ userId[c] # NULL => userId'[c] # NULL
           /\ readyState[c] # "ABSENT" => readyState'[c] # "ABSENT"
           /\ readyState[c] = "CLOSED" =>
                  /\ readyState'[c] = "CLOSED"
                  /\ userId'[c] = userId[c]
                  /\ nauth'[c] = nauth[c]
                  /\ sent'[c] = sent[c]
                  /\ {e \in connections' : e.ws = c} \subseteq connections
      ]_vars

\* An authenticated socket has closed while the server still handles
\* requests.
C23_Witness ==
    \E c \in Conns :
        /\ readyState[c] = "CLOSED"
        /\ c \in authed
        /\ nreq < MaxRequests

\* C24: a relay whose row is written ends in one of two ways only, with both
\* storage calls resolved or with updateChatLastMessage rejected, whatever
\* happens to the sender's socket; a relay that ends after the sender's socket
\* stopped being open has written lastMessageAt and, when the recipient's
\* registry entry had an open socket at the lookup, has written new_message
\* to that socket, the one that authenticated as the recipient most recently.
C24_RelayOutlivesSender ==
    \A id \in DOMAIN handlers :
        LET h == handlers[id] IN
        /\ (h.pc = "done" /\ RowsOf(id) # {}) =>
               (h.outcome = "sent" \/ h.failedAt = "updateChatLastMessage")
        /\ (h.outcome = "sent" /\ ~h.senderOpen) =>
               /\ h.lma = h.ts /\ h.lma # NoTime
               /\ h.lookup = "open" =>
                      /\ h.pushed
                      /\ h.target = h.lastAuthOther
                      /\ \E f \in FramesOn(h.target) :
                             f.type = "new_message" /\ f.message = h.newMessage

\* The socket of u1 closed while its relay for chat-1 was in flight; the relay
\* ended with lastMessageAt written and new_message on c3, a socket that
\* authenticated as u2 after the server started.
C24_Witness ==
    \E id \in DOMAIN handlers :
        /\ handlers[id].outcome = "sent"
        /\ handlers[id].chatId = "chat-1"
        /\ readyState[handlers[id].ws] = "CLOSED"
        /\ ~handlers[id].senderOpen
        /\ handlers[id].target = "c3"
        /\ \E f \in FramesOn("c3") : f.type = "new_message" /\ f.message.id = id

\* C25: while the socket that authenticated most recently as user u is open,
\* the registry maps u to it.
C25_NewestBindingSurvives ==
    \A u \in Users :
        (lastAuth[u] # NoConn /\ readyState[lastAuth[u]] = "OPEN") =>
            [userId |-> u, ws |-> lastAuth[u]] \in connections

\* C26: every new_message is forwarded to a socket whose userId at that
\* moment is the buyer or the seller of the chat.
C26_PushOnlyToParticipant ==
    \A id \in DOMAIN handlers :
        handlers[id].pushed =>
            handlers[id].targetUserId \in Participants(handlers[id].chatId)

\* C27: no relay forwards new_message to the socket that sent the message.
C27_NoEchoToSender ==
    \A id \in DOMAIN handlers :
        handlers[id].pushed => handlers[id].target # handlers[id].ws

\* C21: table chats holds at most one row for a (buyerId, sellerId,
\* listingId) triple, and a POST /api/chats answered with an existing chat
\* (status 200) has inserted no row.
C21_OneChatPerTriple ==
    /\ \A r1 \in chats : \A r2 \in chats :
           (/\ r1.buyerId = r2.buyerId
            /\ r1.sellerId = r2.sellerId
            /\ r1.listingId = r2.listingId) => r1.id = r2.id
    /\ \A k \in DOMAIN posts :
           posts[k].status = 200 => NewChatId(k) \notin {r.id : r \in chats}

\* C28: of the POST /api/auth/refresh requests that present one refresh
\* token, at most one is answered with a new token pair.
C28_RefreshTokenSingleUse ==
    \A k1 \in DOMAIN calls : \A k2 \in DOMAIN calls :
        (/\ calls[k1].refreshToken # NoToken
         /\ calls[k1].refreshToken = calls[k2].refreshToken
         /\ calls[k1].refreshStatus = 200
         /\ calls[k2].refreshStatus = 200) => k1 = k2

\* The apiRequest calls whose refresh was answered with a new token pair.
Refreshed == {k \in DOMAIN calls : calls[k].refreshStatus = 200}

\* C29: when two apiRequest calls that both posted the stored refresh token
\* to /api/auth/refresh have finished and a refresh was answered with a new
\* pair, localStorage holds a pair issued by such a refresh.
C29_RefreshedPairKept ==
    \A k1 \in DOMAIN calls : \A k2 \in DOMAIN calls :
        (/\ k1 # k2
         /\ calls[k1].pc = "done" /\ calls[k2].pc = "done"
         /\ calls[k1].refreshToken # NoToken
         /\ calls[k1].refreshToken = calls[k2].refreshToken
         /\ Refreshed # {}) =>
            \E k \in Refreshed :
                localStorage = StoreTokens(calls[k].issued)

\* C30: an apiRequest call that returned a response to its caller returned
\* one whose status is ok.
C30_OnlyOkReturned ==
    \A k \in DOMAIN calls :
        (calls[k].pc = "done" /\ ~calls[k].threw) => Ok(calls[k].returned)
====
